---- MODULE Spec2Model ----
(***************************************************************************)
(* A model of the HTLC swap orchestrator of src/LN/btc_swap.py             *)
(* (class LightningNetworkSwap): several orchestrator processes working on *)
(* one swaps.json file and talking to Lightning nodes over REST.           *)
(*                                                                         *)
(* Python values are modelled as follows:                                  *)
(*   bytes          sequences of numbers 0..255                            *)
(*   str            sequences of character codes (ASCII)                   *)
(*   Optional[x]    None is <<>>, a present value x is <<x>>               *)
(*   dict of swaps  a sequence of records in insertion order               *)
(*   time.time()    clock, counted in half seconds (TicksPerSec == 2), so  *)
(*                  that int(time.time()) truncates something              *)
(***************************************************************************)
EXTENDS Integers, Sequences, FiniteSets, Bags, TLC

\* ------------------------------------------------------------------ bounds
\* the number of create_swap calls that get as far as storing a swap
MaxSwaps == 2
\* the number of times the clock advances
MaxTicks == 1
MaxInvoices == 3
\* the number of bytes of a secret (32 in the source, scaled down)
SecretBytes == 1

\* --------------------------------------------------------------- constants
\* the model's clock resolution: clock counts half seconds
TicksPerSec == 2
\* seconds per minute, the factor of expiry_minutes
SecPerMin == 60

\* the orchestrator processes that share swaps.json
Inst == {1, 2}

\* the aliases of ln.json, as _load_config keys them
Nodes == {"alice", "carol"}
Amounts == {5000}
\* what the clock may advance by: a minute, or a minute and half a second
Deltas == {SecPerMin * TicksPerSec, SecPerMin * TicksPerSec + 1}

None == <<>>
Some(x) == <<x>>

\* ---------------------------------------------------------------- encodings
RECURSIVE ToHex(_)
HexDigit(n) == IF n < 10 THEN 48 + n ELSE 87 + n
\* bytes.hex(): two lower-case hex digits per byte
ToHex(b) ==
    IF b = <<>> THEN <<>>
    ELSE <<HexDigit(Head(b) \div 16), HexDigit(Head(b) % 16)>> \o ToHex(Tail(b))

HexValue(c) == IF c >= 97 THEN c - 87 ELSE IF c >= 65 THEN c - 55 ELSE c - 48
RECURSIVE FromHex(_)
\* bytes.fromhex(): one byte per two hex digits
FromHex(s) ==
    IF Len(s) < 2 THEN <<>>
    ELSE <<HexValue(s[1]) * 16 + HexValue(s[2])>> \o FromHex(SubSeq(s, 3, Len(s)))

\* str.encode(): the UTF-8 bytes of a string of ASCII characters
StrEncode(s) == [i \in 1..Len(s) |-> s[i] % 256]

B64Char(v) ==
    IF v < 26 THEN 65 + v
    ELSE IF v < 52 THEN 71 + v
    ELSE IF v < 62 THEN v - 4
    ELSE IF v = 62 THEN 43 ELSE 47
B64Pad == 61
B64Value(c) ==
    IF c >= 97 THEN c - 71
    ELSE IF c >= 65 THEN c - 65
    ELSE IF c >= 48 THEN c + 4
    ELSE IF c = 43 THEN 62 ELSE 63

RECURSIVE B64Encode(_)
\* base64.b64encode(b).decode(): four characters per three bytes, '=' padded
B64Encode(b) ==
    IF b = <<>> THEN <<>>
    ELSE IF Len(b) = 1 THEN
        <<B64Char(b[1] \div 4), B64Char((b[1] % 4) * 16), B64Pad, B64Pad>>
    ELSE IF Len(b) = 2 THEN
        <<B64Char(b[1] \div 4), B64Char((b[1] % 4) * 16 + b[2] \div 16),
          B64Char((b[2] % 16) * 4), B64Pad>>
    ELSE
        <<B64Char(b[1] \div 4), B64Char((b[1] % 4) * 16 + b[2] \div 16),
          B64Char((b[2] % 16) * 4 + b[3] \div 64), B64Char(b[3] % 64)>>
        \o B64Encode(SubSeq(b, 4, Len(b)))

RECURSIVE B64Decode(_)
\* base64.b64decode(): what the node does with a bytes field of a request
B64Decode(s) ==
    IF Len(s) < 4 THEN <<>>
    ELSE
        LET v1 == B64Value(s[1])
            v2 == B64Value(s[2])
            b1 == v1 * 4 + v2 \div 16
        IN  IF s[3] = B64Pad THEN <<b1>>
            ELSE LET v3 == B64Value(s[3])
                     b2 == (v2 % 16) * 16 + v3 \div 4
                 IN  IF s[4] = B64Pad THEN <<b1, b2>>
                     ELSE <<b1, b2, (v3 % 4) * 64 + B64Value(s[4])>>
                          \o B64Decode(SubSeq(s, 5, Len(s)))

\* hashlib.sha256(b).digest() as an ideal hash: a fixed injective function of
\* the input bytes (different inputs never collide)
Sha256(b) == <<Len(b) % 256>> \o [i \in 1..Len(b) |-> (b[i] * 7 + 13) % 256]
\* hashlib.sha256(b).hexdigest()
Sha256Hex(b) == ToHex(Sha256(b))

\* ------------------------------------------------------------ the secret
\* secrets.token_hex(32): 256 random bits, so every call gives a value no
\* earlier call gave; the k-th secret drawn is a fixed value of its own
RandomByte == <<171, 18, 52, 205>>
token_hex_32(k) == ToHex([j \in 1..SecretBytes |-> RandomByte[((k + j - 1) % 4) + 1]])
\* secrets.token_hex(4): 32 random bits: the k-th draw is the next new value
\* or, where the run lets values repeat, one of the values drawn before
token_hex_4(k, repeats) == {ToHex(<<n>>) : n \in (IF repeats THEN 0..k ELSE {k})}

\* a generate_htlc_secret that hashes the secret's decoded bytes instead of the
\* secret string's
generate_htlc_secret_raw(k) ==
    LET secret == token_hex_32(k)
    IN  [secret |-> secret, hash_lock |-> Sha256Hex(FromHex(secret))]

\* generate_htlc_secret: secret = token_hex(32), hash_lock = sha256 of the
\* secret STRING's bytes
generate_htlc_secret(k) ==
    LET secret == token_hex_32(k)
    IN  [secret |-> secret, hash_lock |-> Sha256Hex(StrEncode(secret))]

\* -------------------------------------------------------------- the state
VARIABLES
    clock,       \* time.time(), in half seconds
    nticks,      \* how often the clock advanced
    file,        \* swaps.json: [state: absent | ok | corrupt, data: list of records]
    pc,          \* per process: down | idle | paying | except
    swaps,       \* per process: self.swaps, in insertion order
    cur,         \* per process: the swap_id execute_swap is working on
    invoiceReqs, \* the POST /v1/invoices requests sent, as a set
    nodeInvoices,\* the invoices the receiving nodes issued: payment_request -> preimage
    payReqs,     \* the POST /v1/channels/transactions requests sent, as a bag
    ncreated,    \* how many swaps create_swap stored
    env,         \* what this run's environment may do: see Environment
    last,        \* the last call: which, by whom, on what, and how it ended
    pay,         \* a run of pay_carol_to_alice.py: its position and locals
    cancel,      \* a run of cancel_all_invoices.py: its position and locals
    manual,      \* a run of manual_test.py: its position and locals
    retry        \* a call of get_quote_with_retry of test.py: position and locals

\* the orchestrator and its surroundings
orchestrator == <<clock, nticks, file, pc, swaps, cur, invoiceReqs, nodeInvoices,
                  payReqs, ncreated, env, last>>
\* the stand-alone scripts of src/LN and of src
scripts == <<pay, cancel, manual, retry>>

vars == <<clock, nticks, file, pc, swaps, cur, invoiceReqs, nodeInvoices,
          payReqs, ncreated, env, last, pay, cancel, manual, retry>>

\* a script that is not run
NotRun == [pc |-> "none"]

Terminal == {"completed", "failed", "expired"}
Statuses == {"pending", "executing"} \cup Terminal

\* int(time.time())
IntTime == clock \div TicksPerSec
\* an expiry test that already fires at the expiry time itself
TimeAfter_inclusive(t) == clock >= t * TicksPerSec

\* time.time() > t, for an integer t
TimeAfter(t) == clock > t * TicksPerSec

\* ------------------------------------------------------------- the dict
RECURSIVE IndexOf(_, _)
\* the position of swap_id in a dict, 0 when it is not a key
IndexOf(d, id) ==
    IF d = <<>> THEN 0
    ELSE IF d[Len(d)].swap_id = id THEN Len(d)
    ELSE IndexOf(SubSeq(d, 1, Len(d) - 1), id)

Keys(d) == {d[k].swap_id : k \in 1..Len(d)}
Has(d, id) == IndexOf(d, id) # 0
Get(d, id) == d[IndexOf(d, id)]
\* d[id] = rec: replaces in place or appends
Put(d, id, rec) ==
    IF Has(d, id) THEN [d EXCEPT ![IndexOf(d, id)] = rec] ELSE Append(d, rec)
\* a status change that also drops the swap's invoice
SetStatus_noInvoice(d, id, st) ==
    [d EXCEPT ![IndexOf(d, id)].status = st, ![IndexOf(d, id)].invoice = None]

\* swap.status = st, for the swap stored under id
SetStatus(d, id, st) == [d EXCEPT ![IndexOf(d, id)].status = st]

NoFile == [state |-> "absent", data |-> <<>>]

\* "HIDDEN"
Hidden == <<72, 73, 68, 68, 69, 78>>

\* a JSON object of a swap that holds a placeholder for the secret
SwapDict_hidden(swap) == [swap EXCEPT !.secret = Hidden]

\* swap.__dict__ as json.dump writes it: one member for each attribute of the
\* dataclass, a str or an int as it is and None as null
SwapDict(swap) ==
    [swap_id |-> swap.swap_id,
     from_node |-> swap.from_node,
     to_node |-> swap.to_node,
     amount_sats |-> swap.amount_sats,
     secret |-> swap.secret,
     hash_lock |-> swap.hash_lock,
     expiry_time |-> swap.expiry_time,
     status |-> swap.status,
     created_at |-> swap.created_at,
     invoice |-> swap.invoice,
     payment_hash |-> swap.payment_hash]

\* SwapOrder(**swap_data): the members of the JSON object as keyword
\* arguments, invoice and payment_hash defaulting to None
SwapOrder(swap_data) ==
    [swap_id |-> swap_data.swap_id,
     from_node |-> swap_data.from_node,
     to_node |-> swap_data.to_node,
     amount_sats |-> swap_data.amount_sats,
     secret |-> swap_data.secret,
     hash_lock |-> swap_data.hash_lock,
     expiry_time |-> swap_data.expiry_time,
     status |-> swap_data.status,
     created_at |-> swap_data.created_at,
     invoice |-> IF "invoice" \in DOMAIN swap_data THEN swap_data.invoice ELSE None,
     payment_hash |-> IF "payment_hash" \in DOMAIN swap_data
                      THEN swap_data.payment_hash ELSE None]

RECURSIVE Dump(_)
\* [swap.__dict__ for swap in self.swaps.values()]
Dump(d) == IF d = <<>> THEN <<>> ELSE <<SwapDict(Head(d))>> \o Dump(Tail(d))

RECURSIVE LoadInto(_, _)
\* _load_swaps: self.swaps[swap.swap_id] = swap for every record of the file
LoadInto(d, data) ==
    IF data = <<>> THEN d
    ELSE LoadInto(Put(d, Head(data).swap_id, SwapOrder(Head(data))), Tail(data))
_load_swaps(f) == IF f.state = "ok" THEN LoadInto(<<>>, f.data) ELSE <<>>

\* the outcomes of one _save_swaps call: written; open() failed and the file
\* is as it was; the write failed after open() truncated the file
SaveOutcomes == IF env.diskFaults THEN {"ok", "unchanged", "truncated"} ELSE {"ok"}
\* a save that writes only the swaps not yet in a terminal status
_save_swaps_pruned(d, outcome) ==
    [state |-> "ok", data |-> SelectSeq(d, LAMBDA s : s.status \notin Terminal)]

\* _save_swaps: the file after the call
_save_swaps(d, outcome) ==
    IF outcome = "ok" THEN [state |-> "ok", data |-> Dump(d)]
    ELSE IF outcome = "unchanged" THEN file
    ELSE [state |-> "corrupt", data |-> <<>>]

\* the record of a call: the operation, the process, the swap_id, how the
\* call ended (a return value or the exception raised), the arguments of a
\* create_swap, and what the node answered during the call
Call(op, i, id, result) == [op |-> op, inst |-> i, id |-> id, result |-> result,
                            args |-> <<>>, node |-> "none", preimage |-> None]

\* ---------------------------------------------------------------- Init
\* the state before any process has started: no swaps.json, nothing sent
NoOrchestrator ==
    /\ clock = 0
    /\ nticks = 0
    /\ file = NoFile
    /\ pc = [i \in Inst |-> "down"]
    /\ swaps = [i \in Inst |-> <<>>]
    /\ cur = [i \in Inst |-> None]
    /\ invoiceReqs = {}
    /\ nodeInvoices = {}
    /\ payReqs = EmptyBag
    /\ ncreated = 0
    /\ last = Call("init", 0, None, "ok")

\* no process has started and no script is run
InitState ==
    /\ NoOrchestrator
    /\ pay = NotRun
    /\ cancel = NotRun
    /\ manual = NotRun
    /\ retry = NotRun

\* the environment of a run:
\*   diskFaults    writes of swaps.json may fail
\*   wideInputs    callers also pass an expiry of no minutes
\*   badCalls      callers also make calls the orchestrator rejects
\*   idCollisions  secrets.token_hex(4) may give a value it gave before
Environment(faults, wide, bad, collide) ==
    [diskFaults |-> faults, wideInputs |-> wide, badCalls |-> bad,
     idCollisions |-> collide]

\* a disk that works, callers that pass a positive expiry and make no call
\* that is rejected, swap_id suffixes that do not repeat
Init == InitState /\ env = Environment(FALSE, FALSE, FALSE, FALSE)

\* time passes
Tick ==
    /\ nticks < MaxTicks
    /\ \E d \in Deltas : clock' = clock + d
    /\ nticks' = nticks + 1
    /\ UNCHANGED <<file, pc, swaps, cur, invoiceReqs, nodeInvoices, payReqs,
                   ncreated, env, last, scripts>>

\* LightningNetworkSwap(): a process starts and loads swaps.json; a file that
\* does not parse makes the constructor raise
Start(i) ==
    /\ pc[i] = "down"
    \* processes are numbered in the order they start
    /\ \A j \in Inst : j < i => pc[j] # "down"
    /\ IF file.state = "corrupt"
       THEN /\ last' = Call("start", i, None, "JSONDecodeError")
            /\ UNCHANGED <<pc, swaps>>
       ELSE /\ pc' = [pc EXCEPT ![i] = "idle"]
            /\ swaps' = [swaps EXCEPT ![i] = _load_swaps(file)]
            /\ last' = Call("start", i, None, "ok")
    /\ UNCHANGED <<clock, nticks, file, cur, invoiceReqs, nodeInvoices, payReqs,
                   ncreated, env, scripts>>

\* ---------------------------------------------------------- create_swap
\* the body of the POST /v1/invoices request of create_swap
InvoiceData(swap_id, amount_sats, expiry_time, secret) ==
    [value |-> amount_sats,
     memo |-> swap_id,
     expiry |-> expiry_time,
     r_preimage |-> B64Encode(FromHex(secret))]

\* the payment_request the receiving node issues for an invoice request: it
\* encodes the amount, the description and the payment hash
PaymentRequest(data) ==
    [value |-> data.value, memo |-> data.memo,
     payment_hash |-> Sha256(B64Decode(data.r_preimage))]

\* the node's answers to POST /v1/invoices: the invoice (payment_request and
\* r_hash), a JSON object without these fields, or no answer (_make_request
\* raises). A node issues no second invoice for a preimage it already holds.
InvoiceResponses(data) ==
    {"nofields", "fail"} \cup
    (IF \E inv \in nodeInvoices : inv.r_preimage = data.r_preimage
     THEN {} ELSE {"ok"})

\* a create_swap that leaves the status as the constructor set it
StatusAfterInvoice_pending(resp) == "pending"

\* a create_swap whose except branch does not set the status
StatusAfterInvoice_unset(resp) == IF resp = "fail" THEN "pending" ELSE "executing"

\* lines 187 and 193: the status create_swap leaves the swap in
StatusAfterInvoice(resp) == IF resp = "fail" THEN "failed" ELSE "executing"

\* the SwapOrder create_swap builds (lines 156-172) and fills in from the
\* node's response (lines 175-193)
NewSwap(from_node, to_node, amount_sats, expiry_minutes, k, suffix, resp) ==
    LET hs == generate_htlc_secret(k)
        swap_id == <<"swap", IntTime, suffix>>
        expiry_time == IntTime + expiry_minutes * SecPerMin
        data == InvoiceData(swap_id, amount_sats, expiry_time, hs.secret)
    IN  [swap_id |-> swap_id,
         from_node |-> from_node,
         to_node |-> to_node,
         amount_sats |-> amount_sats,
         secret |-> hs.secret,
         hash_lock |-> hs.hash_lock,
         expiry_time |-> expiry_time,
         status |-> StatusAfterInvoice(resp),
         created_at |-> IntTime,
         invoice |-> IF resp = "ok" THEN Some(PaymentRequest(data)) ELSE None,
         payment_hash |-> IF resp = "ok"
                          THEN Some(B64Encode(Sha256(B64Decode(data.r_preimage))))
                          ELSE None]

\* a validation that forgets the receiving node
NodesKnown_fromOnly(from_node, to_node) == from_node \in Nodes

\* lines 150-153: both aliases are keys of self.nodes
NodesKnown(from_node, to_node) == from_node \in Nodes /\ to_node \in Nodes

create_swap(i, from_node, to_node, amount_sats, expiry_minutes) ==
    /\ pc[i] = "idle"
    /\ IF ~NodesKnown(from_node, to_node)
       THEN /\ last' = [Call("create", i, None, "ValueError")
                        EXCEPT !.args = <<from_node, to_node>>]
            /\ UNCHANGED <<file, swaps, invoiceReqs, nodeInvoices, ncreated>>
       ELSE /\ ncreated < MaxSwaps
            /\ \E suffix \in token_hex_4(ncreated, env.idCollisions) :
                 LET swap_id == <<"swap", IntTime, suffix>>
                     expiry_time == IntTime + expiry_minutes * SecPerMin
                     data == InvoiceData(swap_id, amount_sats, expiry_time,
                                         generate_htlc_secret(ncreated).secret)
                 IN  \E resp \in InvoiceResponses(data), out \in SaveOutcomes :
                       LET swap == NewSwap(from_node, to_node, amount_sats,
                                           expiry_minutes, ncreated, suffix, resp)
                           d == Put(swaps[i], swap_id, swap)
                       IN  /\ invoiceReqs' = invoiceReqs \cup {[node |-> to_node, data |-> data]}
                           /\ nodeInvoices' =
                                IF resp = "ok"
                                THEN nodeInvoices \cup
                                       {[payment_request |-> PaymentRequest(data),
                                         r_preimage |-> data.r_preimage]}
                                ELSE nodeInvoices
                           /\ swaps' = [swaps EXCEPT ![i] = d]
                           /\ file' = _save_swaps(d, out)
                           /\ ncreated' = ncreated + 1
                           /\ last' = [Call("create", i, Some(swap_id),
                                            IF out = "ok" THEN swap.status ELSE "OSError")
                                       EXCEPT !.args = <<from_node, to_node>>,
                                              !.node = resp]
    /\ UNCHANGED <<clock, nticks, pc, cur, payReqs, env, scripts>>

\* --------------------------------------------------------- execute_swap
\* a status check that lets a failed swap be executed again
Executable_orFailed(status) == status \in {"executing", "failed"}

\* line 208: the only status execute_swap works on
Executable(status) == status = "executing"

\* a payment step that records every answer of the node as completed
StatusAfterPayment_completed(kind) == "completed"

\* a payment step that leaves a refused swap executable
StatusAfterPayment_retry(kind) == IF kind = "payment_error" THEN "executing" ELSE "completed"

\* lines 224-231: the status after the node answered the payment request
StatusAfterPayment(kind) == IF kind = "payment_error" THEN "failed" ELSE "completed"

\* lines 203-222: the checks, and the payment request going out
execute_swap(i, swap_id) ==
    /\ pc[i] = "idle"
    /\ IF ~Has(swaps[i], swap_id)
       THEN /\ last' = Call("execute", i, Some(swap_id), "ValueError:not found")
            /\ UNCHANGED <<file, pc, swaps, cur, payReqs>>
       ELSE LET swap == Get(swaps[i], swap_id)
            IN  IF ~Executable(swap.status)
                THEN /\ last' = Call("execute", i, Some(swap_id), "ValueError:not executable")
                     /\ UNCHANGED <<file, pc, swaps, cur, payReqs>>
                ELSE IF TimeAfter(swap.expiry_time)
                THEN \E out \in SaveOutcomes :
                       LET d == SetStatus(swaps[i], swap_id, "expired")
                       IN  /\ swaps' = [swaps EXCEPT ![i] = d]
                           /\ file' = _save_swaps(d, out)
                           /\ last' = Call("execute", i, Some(swap_id),
                                           IF out = "ok" THEN "ValueError:expired"
                                           ELSE "OSError")
                           /\ UNCHANGED <<pc, cur, payReqs>>
                ELSE /\ payReqs' = payReqs (+) SetToBag({[node |-> swap.from_node,
                                                         payment_request |-> swap.invoice]})
                     /\ pc' = [pc EXCEPT ![i] = "paying"]
                     /\ cur' = [cur EXCEPT ![i] = Some(swap_id)]
                     /\ last' = Call("execute", i, Some(swap_id), "request sent")
                     /\ UNCHANGED <<file, swaps>>
    /\ UNCHANGED <<clock, nticks, invoiceReqs, nodeInvoices, ncreated, env, scripts>>

\* the preimages a payment response may carry: none, the one the receiving
\* node holds for the invoice, or another one
PreimagesFor(invoice) ==
    {None, Some(B64Encode(<<0>>))} \cup
    {Some(inv.r_preimage) : inv \in {x \in nodeInvoices : Some(x.payment_request) = invoice}}

\* the node's answers to the payment request: paid (with a preimage), a
\* payment_error, or no answer (_make_request raises)
PayResponses(invoice) ==
    {[kind |-> "ok", preimage |-> p] : p \in PreimagesFor(invoice)}
    \cup {[kind |-> "payment_error", preimage |-> None],
          [kind |-> "exception", preimage |-> None]}

\* lines 222-235: the node's answer arrives
PayResponse(i) ==
    /\ pc[i] = "paying"
    /\ LET swap_id == cur[i][1]
           swap == Get(swaps[i], swap_id)
       IN  \E resp \in PayResponses(swap.invoice), out \in SaveOutcomes :
             IF resp.kind = "exception"
             THEN /\ pc' = [pc EXCEPT ![i] = "except"]
                  /\ last' = [Call("execute", i, Some(swap_id), "exception")
                              EXCEPT !.node = resp.kind]
                  /\ UNCHANGED <<file, swaps, cur>>
             ELSE LET st == StatusAfterPayment(resp.kind)
                      d == SetStatus(swaps[i], swap_id, st)
                  IN  /\ swaps' = [swaps EXCEPT ![i] = d]
                      /\ file' = _save_swaps(d, out)
                      /\ IF out = "ok"
                         THEN /\ pc' = [pc EXCEPT ![i] = "idle"]
                              /\ cur' = [cur EXCEPT ![i] = None]
                              /\ last' = [Call("execute", i, Some(swap_id),
                                               IF st = "completed" THEN "True" ELSE "False")
                                          EXCEPT !.node = resp.kind,
                                                 !.preimage = resp.preimage]
                         ELSE /\ pc' = [pc EXCEPT ![i] = "except"]
                              /\ last' = [Call("execute", i, Some(swap_id), "exception")
                                          EXCEPT !.node = resp.kind,
                                                 !.preimage = resp.preimage]
                              /\ UNCHANGED cur
    /\ UNCHANGED <<clock, nticks, invoiceReqs, nodeInvoices, payReqs, ncreated,
                   env, scripts>>

\* lines 237-241: the except branch
ExecuteExcept(i) ==
    /\ pc[i] = "except"
    /\ LET swap_id == cur[i][1]
           d == SetStatus(swaps[i], swap_id, "failed")
           \* what the node had answered in this call: the status the try
           \* block left tells (untouched: the request itself raised)
           status == Get(swaps[i], swap_id).status
           answer == IF status = "executing" THEN "exception"
                     ELSE IF status = "completed" THEN "ok" ELSE "payment_error"
       IN  \E out \in SaveOutcomes :
             /\ swaps' = [swaps EXCEPT ![i] = d]
             /\ file' = _save_swaps(d, out)
             /\ last' = [Call("execute", i, Some(swap_id),
                              IF out = "ok" THEN "False" ELSE "OSError")
                         EXCEPT !.node = answer]
    /\ pc' = [pc EXCEPT ![i] = "idle"]
    /\ cur' = [cur EXCEPT ![i] = None]
    /\ UNCHANGED <<clock, nticks, invoiceReqs, nodeInvoices, payReqs, ncreated,
                   env, scripts>>

\* ------------------------------------------------ cleanup_expired_swaps
\* a sweep that expires only the first swap it finds due
RECURSIVE ExpireAll_first(_)
ExpireAll_first(d) ==
    IF d = <<>> THEN <<>>
    ELSE IF TimeAfter(Head(d).expiry_time) /\ Head(d).status = "pending"
    THEN <<[Head(d) EXCEPT !.status = "expired"]>> \o Tail(d)
    ELSE <<Head(d)>> \o ExpireAll_first(Tail(d))

\* a sweep that also expires the swaps in status executing
ExpireAll_executing(d) ==
    [k \in 1..Len(d) |->
        IF TimeAfter(d[k].expiry_time) /\ d[k].status \in {"pending", "executing"}
        THEN [d[k] EXCEPT !.status = "expired"] ELSE d[k]]

RECURSIVE ExpireAll(_)
\* lines 287-293: every pending swap past its expiry_time becomes expired
ExpireAll(d) ==
    IF d = <<>> THEN <<>>
    ELSE LET s == d[Len(d)]
         IN  Append(ExpireAll(SubSeq(d, 1, Len(d) - 1)),
                    IF TimeAfter(s.expiry_time) /\ s.status = "pending"
                    THEN [s EXCEPT !.status = "expired"] ELSE s)

cleanup_expired_swaps(i) ==
    /\ pc[i] = "idle"
    /\ LET d == ExpireAll(swaps[i])
       IN  IF d # swaps[i]
           THEN \E out \in SaveOutcomes :
                  /\ swaps' = [swaps EXCEPT ![i] = d]
                  /\ file' = _save_swaps(d, out)
                  /\ last' = Call("cleanup", i, None, IF out = "ok" THEN "ok" ELSE "OSError")
           ELSE /\ last' = Call("cleanup", i, None, "ok")
                /\ UNCHANGED <<file, swaps>>
    /\ UNCHANGED <<clock, nticks, pc, cur, invoiceReqs, nodeInvoices, payReqs,
                   ncreated, env, scripts>>

\* --------------------------------------------------------- the queries
\* line 245: self.swaps.get(swap_id)
get_swap_status(i, swap_id) ==
    /\ pc[i] = "idle"
    /\ last' = Call("get", i, Some(swap_id),
                    IF Has(swaps[i], swap_id) THEN Some(Get(swaps[i], swap_id)) ELSE None)
    /\ UNCHANGED <<clock, nticks, file, pc, swaps, cur, invoiceReqs, nodeInvoices,
                   payReqs, ncreated, env, scripts>>

\* a list_swaps that ignores its filter
Filtered_all(d, status_filter) == d

\* lines 249-252: the values of the dict, those of the filter's status when a
\* filter is given
Filtered(d, status_filter) ==
    IF status_filter # None
    THEN SelectSeq(d, LAMBDA s : s.status = status_filter[1])
    ELSE d

list_swaps(i, status_filter) ==
    /\ pc[i] = "idle"
    /\ last' = [Call("list", i, None, Filtered(swaps[i], status_filter))
                EXCEPT !.args = <<status_filter>>]
    /\ UNCHANGED <<clock, nticks, file, pc, swaps, cur, invoiceReqs, nodeInvoices,
                   payReqs, ncreated, env, scripts>>

\* the filters a caller passes to list_swaps: none, or a status
StatusFilters == {None} \cup {Some(s) : s \in Statuses}

\* the expiry_minutes a caller passes: a minute, and in runs with degenerate
\* inputs also none at all
ExpiryMinutes == IF env.wideInputs THEN {0, 1} ELSE {1}

\* ------------------------------------------------------------ the claims
Recs(d) == {d[k] : k \in 1..Len(d)}
\* every copy of a swap record: in a process's memory or in swaps.json
AllRecs == UNION {Recs(swaps[i]) : i \in Inst} \cup Recs(file.data)
\* two copies of one swap: secrets are never drawn twice, swap_ids may be
SameSwap(r, q) == r.swap_id = q.swap_id /\ r.secret = q.secret

\* the state machine of the swap status
Allowed(s, t) ==
    \/ s = t
    \/ s = "pending" /\ t \in {"executing", "failed"}
    \/ s = "executing" /\ t \in Terminal
StoreMonotonic(d, e) ==
    \A r \in Recs(d), q \in Recs(e) : SameSwap(r, q) => Allowed(r.status, q.status)

\* C1: in every step, the status of every swap, in each process's memory and
\* in swaps.json, stays as it is or moves along pending -> executing ->
\* {completed, failed, expired} or pending -> failed; a terminal status
\* never changes.
C1_StatusMonotonic ==
    [][/\ \A i \in Inst : StoreMonotonic(swaps[i], swaps'[i])
       /\ StoreMonotonic(file.data, file'.data)]_vars

\* C2: no invoice is the subject of more than one payment request.
C2_AtMostOnePayment ==
    \A pr \in BagToSet(payReqs) :
        pr.payment_request # None => CopiesIn(pr, payReqs) <= 1

\* C3: an execute_swap call on a swap in status executing whose expiry_time
\* lies before the current time ends with the expiry error, leaves the swap
\* expired in memory and in swaps.json, and sends no payment request; when
\* the current time is not greater than expiry_time, the call sends the
\* payment request and the swap stays executing.
C3_ExpiredExecuteRejected ==
    [][\A i \in Inst : \A id \in Keys(swaps[i]) :
         (/\ pc[i] = "idle"
          /\ Get(swaps[i], id).status = "executing"
          /\ last'.op = "execute" /\ last'.inst = i /\ last'.id = Some(id))
         => IF clock > Get(swaps[i], id).expiry_time * TicksPerSec
            THEN /\ last'.result = "ValueError:expired"
                 /\ Get(swaps'[i], id).status = "expired"
                 /\ file'.state = "ok"
                 /\ Has(file'.data, id)
                 /\ Get(file'.data, id).status = "expired"
                 /\ payReqs' = payReqs
                 /\ pc'[i] = "idle"
            ELSE /\ last'.result = "request sent"
                 /\ Get(swaps'[i], id).status = "executing"
                 /\ file' = file
                 /\ payReqs' # payReqs
                 /\ pc'[i] = "paying"]_vars

\* an expired swap was executed: the call was rejected and the file says expired
C3_Witness ==
    /\ last.op = "execute"
    /\ last.result = "ValueError:expired"
    /\ Has(file.data, last.id[1])
    /\ Get(file.data, last.id[1]).status = "expired"

SecretTriples == {<<r.swap_id, r.secret, r.hash_lock>> : r \in AllRecs}

\* C4: every copy of every swap record, in memory and in swaps.json, has
\* hash_lock = SHA256(secret) (the hex digest of the secret string's bytes),
\* and no step other than a create_swap brings up a record with a secret or
\* hash_lock that no record had before.
C4_HashLockOfSecret ==
    /\ [](\A r \in AllRecs : r.hash_lock = ToHex(Sha256(StrEncode(r.secret))))
    /\ [][last'.op # "create" => SecretTriples' \subseteq SecretTriples]_vars

\* a swap was completed and saved, and a second process holds a copy of it
C4_Witness ==
    \E r \in Recs(file.data) :
        /\ r.status = "completed"
        /\ \A i \in Inst : pc[i] = "idle" /\ Has(swaps[i], r.swap_id)

\* C5: when a swap is completed by a payment whose response carries the
\* preimage create_swap gave the receiving node (the stored secret,
\* hex-decoded), hash_lock is the SHA-256 of that preimage.
C5_HashLockIsPaymentCondition ==
    (last.op = "execute" /\ last.result = "True")
    => LET r == Get(swaps[last.inst], last.id[1])
       IN  last.preimage = Some(B64Encode(FromHex(r.secret)))
           => r.hash_lock = ToHex(Sha256(B64Decode(last.preimage[1])))

\* C6: a swap is recorded completed only if the payment response carried a
\* preimage that hashes to the swap's hash_lock.
C6_CompletedOnlyIfPreimageMatches ==
    (last.op = "execute" /\ last.result = "True")
    => /\ last.preimage # None
       /\ ToHex(Sha256(B64Decode(last.preimage[1])))
            = Get(swaps[last.inst], last.id[1]).hash_lock

\* C7: when no operation is in flight, swaps.json holds every swap any
\* process holds, and a swap that some process has brought to a terminal
\* status has in swaps.json a terminal status some process holds for it.
C7_NoLostUpdate ==
    (\A i \in Inst : pc[i] \in {"down", "idle"})
    => \A r \in UNION {Recs(swaps[i]) : i \in Inst} :
         \E q \in Recs(file.data) :
           /\ SameSwap(r, q)
           /\ LET held == {x.status : x \in {y \in AllRecs \ Recs(file.data) :
                                             SameSwap(y, r)}} \cap Terminal
              IN  held # {} => q.status \in held

\* C8: a create_swap whose invoice request was answered returns a swap in
\* status executing with an invoice and a payment_hash, and every swap in
\* status executing has an invoice.
C8_ExecutingHasInvoice ==
    /\ (last.op = "create" /\ last.node \in {"ok", "nofields"})
       => LET r == Get(swaps[last.inst], last.id[1])
          IN  r.status = "executing" /\ r.invoice # None /\ r.payment_hash # None
    /\ \A r \in AllRecs : r.status = "executing" => r.invoice # None

\* C9: a create_swap with known aliases whose invoice request fails returns
\* (does not raise) a swap with status failed, which is in the process's
\* swaps and in swaps.json.
C9_FailedSwapRetained ==
    (last.op = "create" /\ last.args[1] \in Nodes /\ last.args[2] \in Nodes
     /\ last.node = "fail")
    => /\ last.result = "failed"
       /\ Has(swaps[last.inst], last.id[1])
       /\ Get(swaps[last.inst], last.id[1]).status = "failed"
       /\ file.state = "ok"
       /\ Has(file.data, last.id[1])
       /\ Get(file.data, last.id[1]).status = "failed"

\* the invoice request of a create_swap failed
C9_Witness ==
    /\ last.op = "create"
    /\ last.node = "fail"
    /\ Len(swaps[last.inst]) = 2

\* C10: a create_swap call with an alias that is not configured raises, and
\* changes neither a process's swaps nor swaps.json nor sends a request.
C10_UnknownNodeRejected ==
    [][(last'.op = "create"
        /\ (last'.args[1] \notin Nodes \/ last'.args[2] \notin Nodes))
       => /\ last'.result = "ValueError"
          /\ UNCHANGED <<file, swaps, invoiceReqs, nodeInvoices, payReqs, pc>>]_vars

\* a create_swap to an unknown node was rejected, with a swap in the store
C10_Witness ==
    /\ last.op = "create"
    /\ last.result = "ValueError"
    /\ last.args[2] \notin Nodes
    /\ Len(file.data) > 0

\* C11: an execute_swap call on a swap_id the process does not hold, or on a
\* swap whose status is not executing (pending, completed, failed, expired),
\* raises ValueError, sends no payment request, and changes no swap in any
\* process's memory and nothing in swaps.json.
C11_NotExecutableRejected ==
    [][\A i \in Inst :
         (/\ pc[i] = "idle"
          /\ last' # last /\ last'.op = "execute" /\ last'.inst = i
          /\ \/ ~Has(swaps[i], last'.id[1])
             \/ Get(swaps[i], last'.id[1]).status # "executing")
         => /\ last'.result \in {"ValueError:not found", "ValueError:not executable"}
            /\ (last'.result = "ValueError:not found") = ~Has(swaps[i], last'.id[1])
            /\ UNCHANGED <<swaps, file, payReqs, invoiceReqs, nodeInvoices, pc, cur>>]_vars

\* a pending swap was executed, and the call was rejected
C11_Witness ==
    /\ last.op = "execute"
    /\ last.result = "ValueError:not executable"
    /\ Get(swaps[last.inst], last.id[1]).status = "pending"
    /\ Get(file.data, last.id[1]).status = "pending"

\* C12: when the node answers the payment request of an execute_swap call
\* with a payment_error, the call returns False (it does not raise), and the
\* swap is failed in the process's memory and in swaps.json.
C12_PaymentErrorFails ==
    (last.op = "execute" /\ last.node = "payment_error")
    => /\ last.result = "False"
       /\ pc[last.inst] = "idle"
       /\ Get(swaps[last.inst], last.id[1]).status = "failed"
       /\ file.state = "ok"
       /\ Has(file.data, last.id[1])
       /\ Get(file.data, last.id[1]).status = "failed"

\* a payment request was answered with a payment_error, after a first swap
\* had been completed
C12_Witness ==
    /\ last.op = "execute"
    /\ last.node = "payment_error"
    /\ \E r \in Recs(file.data) : r.status = "completed"

\* C13: an execute_swap call that returns has returned True exactly when it
\* left the swap completed, and it left the swap completed exactly when the
\* node answered the payment request without a payment_error.
C13_TrueIffCompletedIffPaid ==
    (last.op = "execute" /\ pc[last.inst] = "idle" /\ last.result \in {"True", "False"})
    => LET status == Get(swaps[last.inst], last.id[1]).status
       IN  /\ (last.result = "True") = (status = "completed")
           /\ (status = "completed") = (last.node = "ok")

\* C14: an execute_swap call whose payment request failed in transport (the
\* request raised: no answer, a timeout, an HTTP error) does not leave the
\* swap in the terminal status failed, and does not end like a call whose
\* payment the node refused (return value False).
C14_TransportFailureNotFailed ==
    (last.op = "execute" /\ last.node = "exception" /\ pc[last.inst] = "idle")
    => /\ Get(swaps[last.inst], last.id[1]).status # "failed"
       /\ last.result # "False"

\* C15: every execute_swap call that has sent its payment request
\* eventually returns or raises, whether or not the node answers.
C15_CallsReturn ==
    \A i \in Inst : (pc[i] = "paying") ~> (pc[i] = "idle")

\* C16: cleanup_expired_swaps is idempotent: a second run right after a run
\* (the clock unchanged) would change no swap of the process, so the statuses
\* and the set of expired swaps after two runs are those after one.
C16_CleanupIdempotent ==
    [][\A i \in Inst :
         cleanup_expired_swaps(i)
         => /\ ExpireAll(swaps'[i]) = swaps'[i]
            /\ {r \in Recs(ExpireAll(swaps'[i])) : r.status = "expired"}
                 = {r \in Recs(swaps'[i]) : r.status = "expired"}]_vars

\* a cleanup expired both swaps of the store (the second process still holds
\* them as it loaded them, pending)
C16_Witness ==
    /\ last.op = "cleanup" /\ last.inst = 1
    /\ Len(swaps[1]) = 2 /\ Len(swaps[2]) = 2
    /\ \A k \in 1..2 : swaps[1][k].status = "expired" /\ swaps[2][k].status = "pending"
    /\ file.data = swaps[1]

\* C17: a cleanup_expired_swaps run sets to expired exactly the swaps of the
\* process that are pending with expiry_time < the current time; every other
\* swap, every other field, and the swaps of other processes stay as they are.
C17_CleanupExactlyDuePending ==
    [][\A i \in Inst :
         cleanup_expired_swaps(i)
         => /\ Len(swaps'[i]) = Len(swaps[i])
            /\ \A k \in 1..Len(swaps[i]) :
                 swaps'[i][k] =
                   IF /\ swaps[i][k].status = "pending"
                      /\ swaps[i][k].expiry_time * TicksPerSec < clock
                   THEN [swaps[i][k] EXCEPT !.status = "expired"]
                   ELSE swaps[i][k]
            /\ \A j \in Inst \ {i} : swaps'[j] = swaps[j]]_vars

\* a cleanup ran at the very expiry time of the second swap: the first swap,
\* pending and past its expiry, is now expired, the second is still pending
C17_Witness ==
    /\ last.op = "cleanup" /\ last.inst = 1
    /\ Len(swaps[1]) = 2 /\ Len(swaps[2]) = 2
    /\ swaps[2][1].status = "pending"
    /\ swaps[1][1].status = "expired"
    /\ swaps[1][2].status = "pending"
    /\ swaps[1][2].expiry_time * TicksPerSec = clock

\* C18: get_swap_status and list_swaps change no swap of any process and do
\* not write swaps.json or send a request; get_swap_status returns the swap
\* stored under the swap_id or None; list_swaps returns each stored swap whose
\* status is the filter's, once, and every stored swap when there is no filter.
C18_QueriesReadOnly ==
    [][\A i \in Inst :
         (last' # last /\ last'.inst = i /\ last'.op \in {"get", "list"})
         => /\ UNCHANGED <<swaps, file, pc, cur, invoiceReqs, nodeInvoices, payReqs,
                           clock, ncreated>>
            /\ last'.op = "get" =>
                 last'.result = IF last'.id[1] \in Keys(swaps[i])
                                THEN Some(Get(swaps[i], last'.id[1])) ELSE None
            /\ last'.op = "list" =>
                 LET want == {r \in Recs(swaps[i]) :
                                last'.args[1] = None \/ r.status = last'.args[1][1]}
                 IN  /\ Recs(last'.result) = want
                     /\ Len(last'.result) = Cardinality(want)]_vars

\* list_swaps("failed") returned one of the two swaps of the store
C18_Witness ==
    /\ last.op = "list"
    /\ last.args = <<Some("failed")>>
    /\ Len(last.result) = 1
    /\ Len(swaps[last.inst]) = 2

\* C19: while one orchestrator process works on the store alone, no step
\* removes a swap: every swap in the process's memory and every swap in
\* swaps.json is still there, under its swap_id, after the step, whatever
\* its status.
C19_NoSwapDeleted ==
    [][(\A j \in Inst \ {1} : pc[j] = "down" /\ pc'[j] = "down")
       => /\ \A r \in Recs(swaps[1]) : \E q \in Recs(swaps'[1]) : SameSwap(r, q)
          /\ \A r \in Recs(file.data) : \E q \in Recs(file'.data) : SameSwap(r, q)
          /\ Keys(swaps[1]) \subseteq Keys(swaps'[1])
          /\ Keys(file.data) \subseteq Keys(file'.data)]_vars

\* one process alone has created two swaps and brought both to a terminal
\* status, one of them by a payment; both are in swaps.json
C19_Witness ==
    /\ pc = <<"idle", "down">>
    /\ last.op = "execute"
    /\ Len(file.data) = 2
    /\ file.data = swaps[1]
    /\ \A r \in Recs(file.data) : r.status \in Terminal
    /\ \E r \in Recs(file.data) : r.status = "completed"

\* C20: every create_swap call that stores a swap stores it under a swap_id
\* that is a key neither of the process's swaps nor of swaps.json: it
\* replaces no existing record.
C20_FreshSwapId ==
    [][\A i \in Inst :
         (last' # last /\ last'.op = "create" /\ last'.inst = i /\ last'.id # None)
         => /\ ~Has(swaps[i], last'.id[1])
            /\ ~Has(file.data, last'.id[1])
            /\ Len(swaps'[i]) = Len(swaps[i]) + 1]_vars

\* C21: every swap record, in memory and in swaps.json, has
\* expiry_time > created_at.
C21_ExpiryAfterCreation ==
    \A r \in AllRecs : r.expiry_time > r.created_at

\* C24: swaps.json holds no field with the cleartext secret: the secret
\* member of a stored record is not the string whose SHA-256 is the record's
\* hash_lock, and it is not the hex form of the preimage the node was given.
C24_NoCleartextSecretStored ==
    \A k \in 1..Len(file.data) :
      LET obj == file.data[k]
      IN  /\ Sha256Hex(StrEncode(obj.secret)) # obj.hash_lock
          /\ \A inv \in nodeInvoices : B64Encode(FromHex(obj.secret)) # inv.r_preimage

\* C27: every step of a process that changes its map of swaps leaves
\* swaps.json written, with one object per swap of the map, in the map's
\* order and with the values of its fields, and a process started on that
\* file loads a map equal to this one.
C27_SaveThenLoadIsIdentity ==
    [][\A i \in Inst :
          swaps'[i] # swaps[i] /\ last'.op \in {"create", "execute", "cleanup"}
          => /\ file'.state = "ok"
             /\ Len(file'.data) = Len(swaps'[i])
             /\ \A k \in 1..Len(swaps'[i]) :
                  \A f \in DOMAIN swaps'[i][k] : file'.data[k][f] = swaps'[i][k][f]
             /\ _load_swaps(file') = swaps'[i]]_vars

\* a process holding two swaps has just recorded the second as completed
\* and the file holds both
C27_Witness ==
    \E i \in Inst :
      /\ last.op = "execute" /\ last.inst = i /\ last.result = "True"
      /\ Len(swaps[i]) = 2
      /\ swaps[i][2].status = "completed"
      /\ file.data = swaps[i]

\* the results with which a call raises
Raised == {"ValueError", "ValueError:not found", "ValueError:not executable",
           "ValueError:expired", "OSError", "JSONDecodeError"}

\* main, lines 333-411: the exit code of the command whose call is given:
\* 1 when the call raised, 0 when it returned
main_exit(call) == IF call.result \in Raised THEN 1 ELSE 0

\* C26: a command that ends with exit code 0 succeeded: in particular an
\* execute-swap whose execute_swap call returned False (payment error, or
\* no answer of the node) does not end with exit code 0.
C26_ExitZeroOnlyOnSuccess ==
    last.op = "execute" /\ last.result \in {"True", "False"} \cup Raised
    => (main_exit(last) = 0 => last.result = "True")

\* C29: the expiry of every invoice request create_swap sent is the swap's
\* lifetime in seconds, expiry_time - created_at (expiry_minutes * 60), so
\* that an invoice the node issues at created_at runs out at expiry_time.
C29_InvoiceExpiryIsLifetime ==
    \A req \in invoiceReqs : \A r \in AllRecs :
       r.swap_id = req.data.memo
       => /\ req.data.expiry = r.expiry_time - r.created_at
          /\ r.created_at + req.data.expiry <= r.expiry_time

\* C30: whenever the answer to a payment request makes a process record a
\* swap as completed, the time is not after the swap's expiry_time.
C30_NoCompletionAfterExpiry ==
    [][\A i \in Inst :
          pc[i] = "paying" /\ swaps'[i] # swaps[i]
          => LET swap == Get(swaps'[i], cur[i][1])
             IN  swap.status = "completed" => ~TimeAfter(swap.expiry_time)]_vars

\* C31: after an execute_swap call whose payment request the node answered
\* without a payment_error, the swap is not failed in the calling process's
\* memory, and swaps.json does not hold it as failed.
C31_PaidNeverFailed ==
    (last.op = "execute" /\ last.node = "ok" /\ pc[last.inst] = "idle")
    => /\ Get(swaps[last.inst], last.id[1]).status # "failed"
       /\ \A r \in Recs(file.data) :
            r.swap_id = last.id[1] => r.status # "failed"

C33_NeverPending ==
    /\ [](\A r \in AllRecs : r.status \in {"executing"} \cup Terminal)
    /\ [][\A i \in Inst :
            /\ cleanup_expired_swaps(i) => UNCHANGED <<swaps, file>>
            /\ \A k \in 1..Len(swaps[i]) :
                 (swaps[i][k].status = "executing"
                  /\ swaps'[i][k].status # "executing")
                 => last'.op = "execute" /\ last'.inst = i
                    /\ last'.id = Some(swaps[i][k].swap_id)]_vars

\* a cleanup ran while a swap in status executing was past its expiry_time,
\* and the swap is still executing
C33_Witness ==
    /\ last.op = "cleanup"
    /\ \E r \in Recs(swaps[last.inst]) :
         /\ r.status = "executing" /\ TimeAfter(r.expiry_time)
         /\ r \in Recs(file.data)

\* C34: a step of an execute_swap or cleanup_expired_swaps call changes
\* nothing but status fields in the calling process's swaps: the process
\* holds the same swaps in the same order, each with every field other than
\* status as before; an execute_swap step leaves every swap other than the
\* one it was called on as it was; the swaps of other processes are as they
\* were; and when the step writes swaps.json it writes these records.
C34_OnlyStatusChanges ==
    [][\A i \in Inst :
         (last' # last /\ last'.inst = i /\ last'.op \in {"execute", "cleanup"})
         => /\ Len(swaps'[i]) = Len(swaps[i])
            /\ \A k \in 1..Len(swaps[i]) :
                 /\ [swaps'[i][k] EXCEPT !.status = swaps[i][k].status] = swaps[i][k]
                 /\ (last'.op = "execute" /\ Some(swaps[i][k].swap_id) # last'.id)
                    => swaps'[i][k] = swaps[i][k]
            /\ \A j \in Inst \ {i} : swaps'[j] = swaps[j]
            /\ file' # file => file'.data = swaps'[i]]_vars

\* an execute_swap call of the first process has completed the second swap
\* of the store after a cleanup expired the first; the second process still
\* holds both as it loaded them, and they differ in the status only
C34_Witness ==
    /\ last.op = "execute" /\ last.result = "True" /\ last.inst = 1
    /\ Len(swaps[1]) = 2 /\ Len(swaps[2]) = 2
    /\ swaps[1][1].status = "expired" /\ swaps[2][1].status = "pending"
    /\ swaps[1][2].status = "completed" /\ swaps[2][2].status = "executing"
    /\ \A k \in 1..2 : [swaps[1][k] EXCEPT !.status = swaps[2][k].status] = swaps[2][k]

\* the aliases a caller passes: the configured pair, and in runs with
\* rejected calls also an unknown one
FromAliases == IF env.badCalls THEN {"alice", "dave"} ELSE {"alice"}
ToAliases == IF env.badCalls THEN {"carol", "dave"} ELSE {"carol"}

\* the swap_ids a caller passes to execute_swap: those its process holds as
\* executing, and in runs with rejected calls every swap_id there is and one
\* that was never issued
KnownIds == UNION {Keys(swaps[i]) : i \in Inst} \cup Keys(file.data)
CallIds(i) ==
    IF env.badCalls THEN KnownIds \cup {<<"swap", 0, ToHex(<<255>>)>>}
    ELSE {id \in Keys(swaps[i]) : Get(swaps[i], id).status = "executing"}

Next ==
    \/ Tick
    \/ \E i \in Inst : Start(i)
    \/ \E i \in Inst, f \in FromAliases, t \in ToAliases, a \in Amounts, m \in ExpiryMinutes :
         create_swap(i, f, t, a, m)
    \/ \E i \in Inst : \E id \in CallIds(i) : execute_swap(i, id)
    \/ \E i \in Inst : PayResponse(i)
    \/ \E i \in Inst : ExecuteExcept(i)
    \/ \E i \in Inst : cleanup_expired_swaps(i)

Spec == Init /\ [][Next]_vars

\* runs in which callers also make calls that the orchestrator rejects
InitRejected == InitState /\ env = Environment(FALSE, FALSE, TRUE, FALSE)
SpecRejected == InitRejected /\ [][Next]_vars

\* runs in which writes of swaps.json may fail
InitFaults == InitState /\ env = Environment(TRUE, FALSE, FALSE, FALSE)
SpecFaults == InitFaults /\ [][Next]_vars

\* runs in which secrets.token_hex(4) may repeat a value
InitCollide == InitState /\ env = Environment(FALSE, FALSE, FALSE, TRUE)
SpecCollide == InitCollide /\ [][Next]_vars

\* runs in which callers pass every expiry_minutes that create_swap and the
\* --expiry option (type=int) take without complaint, 0 among them
InitWide == InitState /\ env = Environment(FALSE, TRUE, FALSE, FALSE)
SpecWide == InitWide /\ [][Next]_vars

\* runs of one orchestrator process on its own (no second process shares
\* swaps.json), with writes of swaps.json that may fail
NextSingle ==
    \/ Tick
    \/ Start(1)
    \/ \E f \in FromAliases, t \in ToAliases, a \in Amounts, m \in ExpiryMinutes :
         create_swap(1, f, t, a, m)
    \/ \E id \in CallIds(1) : execute_swap(1, id)
    \/ PayResponse(1)
    \/ ExecuteExcept(1)
    \/ cleanup_expired_swaps(1)

SpecSingle == InitFaults /\ [][NextSingle]_vars

\* runs with the scheduling the code guarantees: a call whose request failed
\* goes on to its except branch. Nothing makes a node answer, and
\* _make_request passes no timeout to requests.get or requests.post, so the
\* answer itself is not a step any fairness covers.
SpecLive == Init /\ [][Next]_vars /\ \A i \in Inst : WF_vars(ExecuteExcept(i))

\* a record of swaps.json as _load_swaps accepts it: the fields of a
\* SwapOrder, with any of the five statuses
StoredSwap(k, status, expiry_time) ==
    [NewSwap("alice", "carol", 5000, 1, k, ToHex(<<k>>),
             IF status \in {"pending", "failed"} THEN "fail" ELSE "ok")
     EXCEPT !.status = status, !.expiry_time = expiry_time]

\* the swaps.json files a process may find when it starts: two swaps, the
\* first expiring at time 0, the second after a minute, each in any status
StoredFiles ==
    {[state |-> "ok",
      data |-> <<StoredSwap(0, s1, 0), StoredSwap(1, s2, SecPerMin)>>] :
        s1 \in Statuses, s2 \in Statuses}

\* runs that start from a swaps.json written earlier, with callers that also
\* query the store and make calls the orchestrator rejects
InitStore ==
    /\ clock = 0
    /\ nticks = 0
    /\ file \in StoredFiles
    /\ pc = [i \in Inst |-> "down"]
    /\ swaps = [i \in Inst |-> <<>>]
    /\ cur = [i \in Inst |-> None]
    /\ invoiceReqs = {}
    /\ nodeInvoices = {}
    /\ payReqs = EmptyBag
    /\ ncreated = MaxSwaps
    /\ last = Call("init", 0, None, "ok")
    /\ env = Environment(FALSE, FALSE, TRUE, FALSE)
    /\ pay = NotRun
    /\ cancel = NotRun
    /\ manual = NotRun
    /\ retry = NotRun

NextStore ==
    \/ Next
    \/ \E i \in Inst : \E id \in CallIds(i) : get_swap_status(i, id)
    \/ \E i \in Inst, f \in StatusFilters : list_swaps(i, f)

SpecStore == InitStore /\ [][NextStore]_vars


\* ------------------------------------------------ pay_carol_to_alice.py
\* str.upper() of a string of hex digits
Upper(s) == [k \in 1..Len(s) |-> IF s[k] >= 97 THEN s[k] - 32 ELSE s[k]]

\* lines 300-307: the bytes of a base64 string as upper-case hex digits
decode_base64_to_hex(base64_string) == Upper(ToHex(B64Decode(base64_string)))

\* a str or Optional[str] that Python takes as true: neither None nor ''
Truthy(s) == s # None /\ s # Some(<<>>)

\* bytes.fromhex accepts s: hex digits only, an even number of them
IsHex(s) ==
    /\ Len(s) % 2 = 0
    /\ \A k \in 1..Len(s) : s[k] \in (48..57) \cup (97..102) \cup (65..70)

\* the secret of the hodl invoice, and a --secret value that is no hex string
HodlSecret == token_hex_32(0)
NotHex == <<122, 122>>

\* the timing data of invoice.json: t is the time at which the invoice
\* expires (created_at plus expiry_seconds), kind is the shape of the
\* expires_at member: missing, a string for which the parsing or the
\* comparison raises, or the ISO form of t
ExpiresAt == {[kind |-> k, t |-> 1] : k \in {"missing", "unparsable", "iso"}}

\* lines 94-122: True only for a parsable expires_at that lies before now
check_invoice_expiration(invoice_data, now) ==
    /\ invoice_data.expires_at.kind = "iso"
    /\ now > invoice_data.expires_at.t

\* the htlc_secret object save_invoice_data writes into invoice.json for a
\* secret (invoice_carol_to_alice.py, lines 181-191)
InvoiceHtlcSecret(secret_hex) ==
    [secret |-> Hidden, secret_hash |-> B64Encode(Sha256(FromHex(secret_hex)))]

\* the invoice.json files and command lines of a run
PayRuns ==
    {[pc |-> "start",
      args |-> [secret |-> s, dry_run |-> dry],
      invoice |-> [invoice_type |-> ty, expires_at |-> e, secret_debug |-> dbg,
                   htlc_secret |-> InvoiceHtlcSecret(HodlSecret)],
      now |-> now,
      secret_hex |-> None,
      calls |-> <<>>,
      response |-> None,
      settlement |-> "none",
      receipt |-> None,
      secret_check |-> None,
      hodl |-> "none",
      exit |-> None] :
        s \in {None, Some(HodlSecret), Some(NotHex)},
        dry \in BOOLEAN,
        ty \in {"HODL_INVOICE", "REGULAR"},
        e \in ExpiresAt,
        dbg \in {<<>>, HodlSecret},
        now \in {0, 2}}

\* sys.exit(code), or main returning (code 0)
PayExit(code) == [pay EXCEPT !.pc = "exited", !.exit = Some(code)]

\* main, lines 667-725: configuration and invoice loaded, the expiry check,
\* the choice of the secret, the dry run
PayStart ==
    /\ pay.pc = "start"
    /\ LET is_hodl_invoice == pay.invoice.invoice_type = "HODL_INVOICE"
       IN  IF check_invoice_expiration(pay.invoice, pay.now)
           THEN pay' = PayExit(1)
           ELSE IF ~Truthy(pay.args.secret) /\ is_hodl_invoice
                   /\ pay.invoice.secret_debug = <<>>
           THEN pay' = PayExit(1)
           ELSE LET secret_hex ==
                      IF Truthy(pay.args.secret) THEN pay.args.secret
                      ELSE IF is_hodl_invoice THEN Some(pay.invoice.secret_debug)
                      ELSE None
                IN  IF pay.args.dry_run
                    THEN pay' = [PayExit(0) EXCEPT !.secret_hex = secret_hex]
                    ELSE pay' = [pay EXCEPT !.pc = "ready", !.secret_hex = secret_hex]
    /\ UNCHANGED <<orchestrator, cancel, manual, retry>>

\* what Alice's node answers to POST /v1/channels/transactions: the payment
\* made (with a status member, or without one, '' standing for its
\* absence), a payment_error (the text 'no'), or nothing within the timeout
PaymentAnswers ==
    {[kind |-> "answer", status |-> "SUCCEEDED", payment_error |-> <<>>,
      payment_preimage |-> B64Encode(FromHex(HodlSecret)),
      payment_hash |-> B64Encode(Sha256(FromHex(HodlSecret)))],
     [kind |-> "answer", status |-> "", payment_error |-> <<>>,
      payment_preimage |-> B64Encode(FromHex(HodlSecret)),
      payment_hash |-> B64Encode(Sha256(FromHex(HodlSecret)))],
     [kind |-> "answer", status |-> "FAILED", payment_error |-> <<110, 111>>,
      payment_preimage |-> <<>>,
      payment_hash |-> B64Encode(Sha256(FromHex(HodlSecret)))],
     [kind |-> "exception", status |-> "", payment_error |-> <<>>,
      payment_preimage |-> <<>>, payment_hash |-> <<>>]}

\* the invoice on Carol's node after the payment call, when the node holds
\* the payment of a hodl invoice until the invoice is settled or cancelled
\* (pay.hodl = "open"): the call ends with a payment only when somebody has
\* settled the invoice meanwhile, with a payment_error when the invoice was
\* cancelled, and otherwise runs into the timeout of 60 s with the payment
\* still held. "none": a node of which nothing is assumed.
HodlAfterPayment(hodl, answer) ==
    IF hodl = "none" THEN "none"
    ELSE IF answer.kind = "exception" THEN "accepted"
    ELSE IF answer.payment_error = <<>> THEN "settled"
    ELSE "cancelled"

\* main line 733 and pay_invoice, lines 124-176
pay_invoice ==
    /\ pay.pc = "ready"
    /\ \E answer \in PaymentAnswers :
         IF answer.kind = "exception"
         THEN pay' = [PayExit(1) EXCEPT !.calls = Append(pay.calls, "pay"),
                                        !.hodl = HodlAfterPayment(pay.hodl, answer)]
         ELSE pay' = [pay EXCEPT !.pc = "paid",
                                 !.calls = Append(pay.calls, "pay"),
                                 !.response = Some(answer),
                                 !.hodl = HodlAfterPayment(pay.hodl, answer)]
    /\ UNCHANGED <<orchestrator, cancel, manual, retry>>

\* lines 309-338: the secret hashed and compared with the expected hash; a
\* secret that is no hex string gives verified False and length 0
verify_htlc_hash(secret_hex, expected_hash_base64) ==
    IF IsHex(secret_hex)
    THEN [verified |-> B64Encode(Sha256(FromHex(secret_hex))) = expected_hash_base64,
          secret_length_bytes |-> Len(FromHex(secret_hex))]
    ELSE [verified |-> FALSE, secret_length_bytes |-> 0]

\* lines 340-426: the expected hash is the hash_base64 member of the
\* invoice record's htlc_secret object ('' when there is none); the length
\* asked for is that of a secret (32 in the source)
perform_secret_check(invoice_data, payment_response) ==
    LET original_hash_base64 ==
            IF "hash_base64" \in DOMAIN invoice_data.htlc_secret
            THEN invoice_data.htlc_secret.hash_base64 ELSE <<>>
        payment_preimage_hex ==
            IF payment_response.payment_preimage # <<>>
            THEN decode_base64_to_hex(payment_response.payment_preimage) ELSE <<>>
        hash_match_check == original_hash_base64 = payment_response.payment_hash
        hash_verification == verify_htlc_hash(payment_preimage_hex, original_hash_base64)
        preimage_length_check == hash_verification.secret_length_bytes = SecretBytes
    IN  [overall_verification |->
            hash_match_check /\ hash_verification.verified /\ preimage_length_check,
         hash_match_check |-> hash_match_check,
         original_hash_base64 |-> original_hash_base64]

\* a settlement step that goes on whatever the node answered
AfterSettle_ignored(answer) == "settled"

\* lines 280-298: settle_hodl_invoice returns the response, and exits with
\* code 1 when the request raised
AfterSettle(answer) == IF answer = "ok" THEN "settled" ELSE "exited"

\* what Carol's node answers to POST /v2/invoices/settle: done, or an error;
\* a cancelled invoice cannot be settled
SettleAnswers(hodl) == IF hodl = "cancelled" THEN {"failed"} ELSE {"ok", "failed"}

\* main lines 736-744 and settle_hodl_invoice, lines 238-298
settle_hodl_invoice ==
    /\ pay.pc = "paid"
    /\ IF pay.invoice.invoice_type = "HODL_INVOICE" /\ Truthy(pay.secret_hex)
       THEN IF ~IsHex(pay.secret_hex[1])
            THEN pay' = PayExit(1)
            ELSE \E answer \in SettleAnswers(pay.hodl) :
                   pay' = [pay EXCEPT
                             !.pc = AfterSettle(answer),
                             !.exit = IF AfterSettle(answer) = "exited"
                                      THEN Some(1) ELSE None,
                             !.calls = Append(pay.calls, "settle"),
                             !.settlement = answer]
       ELSE LET payment_preimage == pay.response[1].payment_preimage
            IN  pay' = [pay EXCEPT
                          !.pc = "settled",
                          !.secret_hex =
                             IF payment_preimage # <<>>
                             THEN Some(decode_base64_to_hex(payment_preimage))
                             ELSE Some(<<>>)]
    /\ UNCHANGED <<orchestrator, cancel, manual, retry>>

\* lines 444-516: the two status fields of the receipt
Receipt(payment_response) ==
    [payment_receipt_status |->
        IF payment_response.status = "SUCCEEDED" THEN "SUCCESS" ELSE "FAILED",
     metadata_status |-> "COMPLETED"]

\* main lines 746-761 and save_receipt_data, lines 428-566
save_receipt_data ==
    /\ pay.pc = "settled"
    /\ \E written \in BOOLEAN :
         LET secret_check_result == perform_secret_check(pay.invoice, pay.response[1])
         IN  IF written
             THEN pay' = [PayExit(0) EXCEPT
                            !.receipt = Some(Receipt(pay.response[1])),
                            !.secret_check = Some(secret_check_result),
                            !.calls = Append(pay.calls, "receipt")]
             ELSE pay' = [PayExit(1) EXCEPT
                            !.secret_check = Some(secret_check_result)]
    /\ UNCHANGED <<orchestrator, cancel, manual, retry>>

InitPay ==
    /\ NoOrchestrator
    /\ env = Environment(FALSE, FALSE, FALSE, FALSE)
    /\ pay \in PayRuns
    /\ cancel = NotRun
    /\ manual = NotRun
    /\ retry = NotRun

NextPay ==
    \/ PayStart
    \/ pay_invoice
    \/ settle_hodl_invoice
    \/ save_receipt_data

SpecPay == InitPay /\ [][NextPay]_vars

\* runs against a node that holds the payment of the hodl invoice until the
\* invoice is settled or cancelled; the script goes on from every step it
\* has reached (each request has a timeout of 60 s)
InitPayHodl ==
    /\ NoOrchestrator
    /\ env = Environment(FALSE, FALSE, FALSE, FALSE)
    /\ pay \in {[r EXCEPT !.hodl = "open"] : r \in PayRuns}
    /\ cancel = NotRun
    /\ manual = NotRun
    /\ retry = NotRun

SpecPayHodl ==
    /\ InitPayHodl /\ [][NextPay]_vars
    /\ WF_vars(PayStart) /\ WF_vars(pay_invoice)
    /\ WF_vars(settle_hodl_invoice) /\ WF_vars(save_receipt_data)

\* C22: in a run of pay_carol_to_alice.py on a hodl invoice, the settlement
\* call comes after the payment call has returned; a receipt is written only
\* after the settlement call succeeded; and a run whose settlement failed
\* ends with exit code 1 and without a receipt.
C22_SettleAfterPayReceiptAfterSettle ==
    pay.invoice.invoice_type = "HODL_INVOICE"
    => /\ \A k \in 1..Len(pay.calls) :
            pay.calls[k] = "settle"
            => /\ k > 1 /\ pay.calls[k - 1] = "pay"
               /\ pay.response # None
       /\ pay.receipt # None
            => /\ pay.settlement = "ok"
               /\ pay.calls = <<"pay", "settle", "receipt">>
       /\ pay.settlement = "failed"
            => pay.pc = "exited" /\ pay.exit = Some(1) /\ pay.receipt = None
       /\ pay.settlement # "none" /\ pay.args.secret = None
            => pay.secret_hex = Some(pay.invoice.secret_debug)

\* a hodl invoice was paid, settled with the secret of the debug field, and
\* the receipt written
C22_Witness ==
    /\ pay.invoice.invoice_type = "HODL_INVOICE"
    /\ pay.args.secret = None
    /\ pay.settlement = "ok"
    /\ pay.receipt # None
    /\ pay.exit = Some(0)


\* ------------------------------------------------ cancel_all_invoices.py
\* the invoices GET /v1/invoices lists: the state field (absent: "") and the
\* r_hash of each
InvoiceStates == {"OPEN", "SETTLED", "CANCELED", ""}

RECURSIVE InvoiceLists(_)
InvoiceLists(n) ==
    IF n = 0 THEN {<<>>}
    ELSE InvoiceLists(n - 1) \cup
         {Append(l, [state |-> s, r_hash |-> Len(l) + 1]) :
            l \in {m \in InvoiceLists(n - 1) : Len(m) = n - 1}, s \in InvoiceStates}

\* a loop that skips nothing
Skipped_never(status) == FALSE

\* line 153: invoice.get('state', 'UNKNOWN') == 'SETTLED'
Skipped(status) == (IF status = "" THEN "UNKNOWN" ELSE status) = "SETTLED"

\* main lines 128-146: the invoices are fetched (exit code 1 when the request
\* fails); with none the script returns, otherwise the counters start at 0
CancelStart ==
    /\ cancel.pc = "start"
    /\ \E fetched \in BOOLEAN :
         IF ~fetched
         THEN cancel' = [cancel EXCEPT !.pc = "exited", !.exit = Some(1),
                                       !.invoices = <<>>]
         ELSE IF cancel.invoices = <<>>
         THEN cancel' = [cancel EXCEPT !.pc = "exited", !.exit = Some(0)]
         ELSE cancel' = [cancel EXCEPT !.pc = "loop"]
    /\ UNCHANGED <<orchestrator, pay, manual, retry>>

\* main lines 148-166, one turn of the loop: a settled invoice is skipped,
\* any other is sent a cancel request that the node accepts or not
CancelNext ==
    /\ cancel.pc = "loop"
    /\ cancel.idx < Len(cancel.invoices)
    /\ LET invoice == cancel.invoices[cancel.idx + 1]
       IN  IF Skipped(invoice.state)
           THEN cancel' = [cancel EXCEPT !.idx = @ + 1, !.skipped_count = @ + 1]
           ELSE \E cancelled \in BOOLEAN :
                  cancel' = [cancel EXCEPT
                     !.idx = @ + 1,
                     !.requests = Append(@, invoice.r_hash),
                     !.canceled_count = IF cancelled THEN @ + 1 ELSE @,
                     !.failed_count = IF cancelled THEN @ ELSE @ + 1]
    /\ UNCHANGED <<orchestrator, pay, manual, retry>>

\* main lines 168-169: the summary is printed and the script ends
CancelSummary ==
    /\ cancel.pc = "loop"
    /\ cancel.idx = Len(cancel.invoices)
    /\ cancel' = [cancel EXCEPT !.pc = "exited", !.exit = Some(0)]
    /\ UNCHANGED <<orchestrator, pay, manual, retry>>

InitCancel ==
    /\ NoOrchestrator
    /\ env = Environment(FALSE, FALSE, FALSE, FALSE)
    /\ pay = NotRun
    /\ cancel \in {[pc |-> "start", invoices |-> l, idx |-> 0,
                    canceled_count |-> 0, skipped_count |-> 0,
                    failed_count |-> 0, requests |-> <<>>, exit |-> None] :
                      l \in InvoiceLists(MaxInvoices)}
    /\ manual = NotRun
    /\ retry = NotRun

NextCancel ==
    \/ CancelStart
    \/ CancelNext
    \/ CancelSummary

SpecCancel == InitCancel /\ [][NextCancel]_vars

\* C23: no invoice listed as SETTLED is sent a cancel request; the settled
\* invoices met so far are exactly the skipped ones; the three counters add
\* up to the number of invoices processed, which at the end of the loop is
\* the number of invoices listed.
C23_SettledSkippedCountsAddUp ==
    LET done == SubSeq(cancel.invoices, 1, cancel.idx)
        settled == {k \in 1..cancel.idx : cancel.invoices[k].state = "SETTLED"}
    IN  /\ \A k \in 1..Len(cancel.requests) :
              cancel.invoices[cancel.requests[k]].state # "SETTLED"
        /\ cancel.skipped_count = Cardinality(settled)
        /\ cancel.canceled_count + cancel.failed_count = Len(cancel.requests)
        /\ cancel.canceled_count + cancel.skipped_count + cancel.failed_count
              = Len(done)
        /\ cancel.exit = Some(0)
              => Len(done) = Len(cancel.invoices)

\* a run over three invoices that skipped a settled one, cancelled one and
\* failed to cancel one
C23_Witness ==
    /\ cancel.exit = Some(0)
    /\ Len(cancel.invoices) = 3
    /\ cancel.skipped_count = 1
    /\ cancel.canceled_count = 1
    /\ cancel.failed_count = 1


\* ------------------------------------------------------- manual_test.py
\* main line 349: the amount of the test payment
amount_sats == 10

\* the nodes whose balances main compares, and their totals (on-chain plus
\* channel) before the test
TestNodes == {"alice", "carol"}
StartBalances == [alice |-> 100, carol |-> 50]

\* what the payment (and whatever else happens on the nodes meanwhile) does
\* to the totals: alice pays the amount with or without a fee, or nothing
\* leaves; carol receives the amount, or nothing arrives
AliceChanges == {0 - amount_sats - 1, 0 - amount_sats, 0}
CarolChanges == {amount_sats, 0}

ManualStart ==
    [pc |-> "start",
     bal |-> StartBalances,
     initial_balances |-> [alice |-> 0, carol |-> 0],
     reads_failed |-> {},
     payment_success |-> FALSE,
     method1 |-> "none",
     method2 |-> "none",
     settlement_verified |-> FALSE,
     transfer_verified |-> FALSE,
     verdict |-> "none",
     exit |-> None]

\* main lines 320-340: the initial totals, 0 for a node whose read raised
ManualInitialBalances ==
    /\ manual.pc = "start"
    /\ \E failed \in SUBSET TestNodes :
         manual' = [manual EXCEPT
            !.pc = "balances",
            !.initial_balances =
               [n \in TestNodes |-> IF n \in failed THEN 0 ELSE manual.bal[n]],
            !.reads_failed = failed]
    /\ UNCHANGED <<orchestrator, pay, cancel, retry>>

\* main lines 343-356, step_3_create_invoice: without a payment_request the
\* test returns 1
ManualInvoice ==
    /\ manual.pc = "balances"
    /\ \E created \in BOOLEAN :
         IF created
         THEN manual' = [manual EXCEPT !.pc = "invoiced"]
         ELSE manual' = [manual EXCEPT !.pc = "exited", !.exit = Some(1)]
    /\ UNCHANGED <<orchestrator, pay, cancel, retry>>

\* main lines 361-367, step_4_pay_invoice: False for a payment_error and
\* for a request that raised, and then the test returns 1
ManualPay ==
    /\ manual.pc = "invoiced"
    /\ \E answer \in {"ok", "payment_error", "exception"} :
         IF answer = "ok"
         THEN \E da \in AliceChanges, dc \in CarolChanges :
                manual' = [manual EXCEPT
                   !.pc = "paid",
                   !.payment_success = TRUE,
                   !.bal = [alice |-> manual.bal.alice + da,
                            carol |-> manual.bal.carol + dc]]
         ELSE manual' = [manual EXCEPT !.pc = "exited", !.exit = Some(1)]
    /\ UNCHANGED <<orchestrator, pay, cancel, retry>>

\* what GET /v1/invoices/{hash} gives (method 1) and what the payments
\* list holds for the payment hash (method 2)
Method1Answers == {"settled", "unsettled", "exception"}
Method2Answers == {"SUCCEEDED", "IN_FLIGHT", "notfound", "exception"}

\* lines 233-302: the value step_5_verify_settlement returns
step_5_verify_settlement(method1, method2) ==
    IF method1 = "settled" THEN TRUE
    ELSE IF method1 = "unsettled" THEN FALSE
    ELSE IF method2 = "SUCCEEDED" THEN TRUE
    ELSE TRUE

\* main line 372
ManualVerify ==
    /\ manual.pc = "paid"
    /\ \E method1 \in Method1Answers, method2 \in Method2Answers :
         \* method 2 is tried only when method 1 raised
         /\ method1 # "exception" => method2 = "notfound"
         /\ manual' = [manual EXCEPT
               !.pc = "verified",
               !.method1 = method1,
               !.method2 = IF method1 = "exception" THEN method2 ELSE "none",
               !.settlement_verified = step_5_verify_settlement(method1, method2)]
    /\ UNCHANGED <<orchestrator, pay, cancel, retry>>

\* lines 412-417: alice must have lost at least the amount, carol gained it
ChangeAsExpected(node_alias, change) ==
    IF node_alias = "alice" THEN ~(change > 0 - amount_sats)
    ELSE ~(change < amount_sats)

\* main lines 386-447: the final totals, the changes against the initial
\* totals, and the verdict
ManualFinal ==
    /\ manual.pc = "verified"
    /\ \E failed \in SUBSET TestNodes :
         LET transfer_verified ==
               \A n \in TestNodes :
                  /\ n \notin failed
                  /\ ChangeAsExpected(n, manual.bal[n] - manual.initial_balances[n])
         IN  manual' = [manual EXCEPT
                !.pc = "exited",
                !.exit = Some(0),
                !.reads_failed = @ \cup failed,
                !.transfer_verified = transfer_verified,
                !.verdict = IF manual.payment_success /\ transfer_verified
                            THEN "SUCCESS" ELSE "FAILED"]
    /\ UNCHANGED <<orchestrator, pay, cancel, retry>>

InitManual ==
    /\ NoOrchestrator
    /\ env = Environment(FALSE, FALSE, FALSE, FALSE)
    /\ pay = NotRun
    /\ cancel = NotRun
    /\ manual = ManualStart
    /\ retry = NotRun

NextManual ==
    \/ ManualInitialBalances
    \/ ManualInvoice
    \/ ManualPay
    \/ ManualVerify
    \/ ManualFinal

SpecManual == InitManual /\ [][NextManual]_vars

\* C25: the manual test reports SUCCESS only when the payment succeeded,
\* every balance read succeeded, alice's total went down by at least the
\* amount and carol's total went up by at least the amount; with a change
\* of 0 on carol's side it does not report SUCCESS.
C25_SuccessOnlyWithConsistentDeltas ==
    manual.verdict = "SUCCESS"
    => /\ manual.payment_success
       /\ manual.reads_failed = {}
       /\ manual.bal.alice - StartBalances.alice <= 0 - amount_sats
       /\ manual.bal.carol - StartBalances.carol >= amount_sats

\* C28: step_5_verify_settlement returns true only when the node reported
\* the invoice as settled, or the payments list holds the payment as
\* SUCCEEDED.
C28_SettlementVerifiedOnlyIfReported ==
    manual.settlement_verified
    => \/ manual.method1 = "settled"
       \/ manual.method2 = "SUCCEEDED"


\* C35: when the payment response carries the hash that the invoice script
\* stored in the invoice record and, as preimage, the secret of that hash,
\* perform_secret_check reports overall_verification true.
C35_SecretCheckPasses ==
    (/\ pay.pc # "none"
     /\ pay.secret_check # None
     /\ pay.response[1].payment_hash = pay.invoice.htlc_secret.secret_hash
     /\ Len(B64Decode(pay.response[1].payment_preimage)) = SecretBytes
     /\ B64Encode(Sha256(B64Decode(pay.response[1].payment_preimage)))
          = pay.invoice.htlc_secret.secret_hash)
    => pay.secret_check[1].overall_verification


\* C36: no payment request is sent for an invoice whose expiry lies before
\* the time of the run, whatever the shape of the record's expires_at.
C36_ExpiredNeverPaid ==
    (pay.pc # "none" /\ pay.now > pay.invoice.expires_at.t)
    => pay.calls = <<>>


\* C37: against a node that completes the payment call for a hodl invoice
\* only once the invoice is settled or cancelled, a run on an unexpired hodl
\* invoice with the right secret (not a dry run) eventually has issued the
\* settlement call and ended with the invoice settled.
C37_HodlRunSettles ==
    (/\ pay.pc = "start"
     /\ pay.hodl = "open"
     /\ pay.invoice.invoice_type = "HODL_INVOICE"
     /\ ~check_invoice_expiration(pay.invoice, pay.now)
     /\ ~pay.args.dry_run
     /\ pay.args.secret \in {None, Some(HodlSecret)}
     /\ pay.invoice.secret_debug = HodlSecret)
    ~> (/\ pay.pc = "exited"
        /\ \E k \in 1..Len(pay.calls) : pay.calls[k] = "settle"
        /\ pay.hodl = "settled")


\* C38: a payment response with a payment_error or with a status other than
\* SUCCEEDED is followed neither by a settlement call nor by a receipt, and
\* no receipt holds payment_receipt.payment_status FAILED together with
\* metadata.payment_status COMPLETED.
C38_ReceiptOnlyForSuccess ==
    (pay.pc # "none" /\ pay.response # None)
    => /\ (pay.response[1].payment_error # <<>>
           \/ pay.response[1].status # "SUCCEEDED")
          => /\ \A k \in 1..Len(pay.calls) : pay.calls[k] # "settle"
             /\ pay.receipt = None
       /\ pay.receipt # None
          => ~(/\ pay.receipt[1].payment_receipt_status = "FAILED"
               /\ pay.receipt[1].metadata_status = "COMPLETED")


\* ------------------------------------------------------------------
\* src/test.py, get_quote_with_retry, and src/oinch/get_quote.py
\* ------------------------------------------------------------------

\* the largest max_retries a caller passes
MaxRetries == 3

\* what requests.get and response.json() do on one call of get_quote: a JSON
\* body (an object or null), a bad status code, a body that is no JSON, or
\* an exception that is neither a RequestException nor a ValueError
QuoteAnswers ==
    {[kind |-> "json", body |-> Some([toAmount |-> 1])],
     [kind |-> "json", body |-> None],
     [kind |-> "bad_status", body |-> None],
     [kind |-> "not_json", body |-> None],
     [kind |-> "other_error", body |-> None]}

\* get_quote.py lines 49-58: the parsed body, or None for a
\* RequestException and for a ValueError; any other exception leaves the
\* function
get_quote(answer) ==
    IF answer.kind = "json" THEN [raised |-> FALSE, value |-> answer.body]
    ELSE IF answer.kind \in {"bad_status", "not_json"}
         THEN [raised |-> FALSE, value |-> None]
    ELSE [raised |-> TRUE, value |-> None]

MoreAttempts_always(attempt, max_retries) == TRUE

\* test.py line 98: this was not the last attempt
MoreAttempts(attempt, max_retries) == attempt < max_retries - 1

\* test.py line 100: 2 ** attempt seconds, in clock ticks; the jitter
\* random.uniform(0, 1) adds less than or exactly one second
Jitter == 0..TicksPerSec
wait_time(attempt, jitter) == (2 ^ attempt) * TicksPerSec + jitter

\* a call get_quote_with_retry(from_token, to_token, amount, api_key,
\* max_retries); trace is what the call did so far, in order
RetryStart ==
    {[pc |-> "loop", max_retries |-> m, attempt |-> 0, trace |-> <<>>,
      result |-> None] : m \in 1..MaxRetries}

\* lines 83-95, one turn of the for loop up to the end of the try statement:
\* a quote that is not None is returned at once
RetryAttempt ==
    /\ retry.pc = "loop"
    /\ retry.attempt < retry.max_retries
    /\ \E answer \in QuoteAnswers :
         LET quote == get_quote(answer)
             called == Append(retry.trace,
                              [ev |-> "get_quote", raised |-> quote.raised,
                               value |-> quote.value, wait |-> 0])
         IN retry' = IF ~quote.raised /\ quote.value # None
                     THEN [retry EXCEPT !.trace = called, !.pc = "returned",
                                        !.result = quote.value]
                     ELSE [retry EXCEPT !.trace = called, !.pc = "failed"]
    /\ UNCHANGED <<orchestrator, pay, cancel, manual>>

\* lines 97-102, the rest of the turn after a failed attempt: the sleep,
\* unless this was the last attempt
RetryBackoff ==
    /\ retry.pc = "failed"
    /\ \E jitter \in Jitter :
         retry' = IF MoreAttempts(retry.attempt, retry.max_retries)
                  THEN [retry EXCEPT
                          !.trace = Append(@, [ev |-> "sleep", raised |-> FALSE,
                                               value |-> None,
                                               wait |-> wait_time(retry.attempt,
                                                                  jitter)]),
                          !.attempt = @ + 1, !.pc = "loop"]
                  ELSE [retry EXCEPT !.attempt = @ + 1, !.pc = "loop"]
    /\ UNCHANGED <<orchestrator, pay, cancel, manual>>

\* lines 104-105: the loop ran out
RetryGiveUp ==
    /\ retry.pc = "loop"
    /\ retry.attempt >= retry.max_retries
    /\ retry' = [retry EXCEPT !.pc = "returned", !.result = None]
    /\ UNCHANGED <<orchestrator, pay, cancel, manual>>

InitRetry ==
    /\ NoOrchestrator
    /\ env = Environment(FALSE, FALSE, FALSE, FALSE)
    /\ pay = NotRun
    /\ cancel = NotRun
    /\ manual = NotRun
    /\ retry \in RetryStart

NextRetry ==
    \/ RetryAttempt
    \/ RetryBackoff
    \/ RetryGiveUp

\* the call runs on one thread: whatever step is next is taken
SpecRetry == InitRetry /\ [][NextRetry]_vars /\ WF_vars(NextRetry)

\* the attempts of a trace, and whether an attempt failed
Attempts(trace) == SelectSeq(trace, LAMBDA e : e.ev = "get_quote")
Failed(e) == e.raised \/ e.value = None

\* C39: get_quote_with_retry returns for every max_retries >= 1; it calls
\* get_quote at most max_retries times, never again after a quote that is
\* not None, which it returns; it sleeps between two attempts and never
\* after the last; it returns None exactly when max_retries attempts failed.
C39_RetryShape ==
    retry.pc # "none" =>
      LET trace == retry.trace
          calls == Attempts(trace)
      IN /\ Len(calls) <= retry.max_retries
         /\ \A k \in 1..Len(trace) :
              trace[k].ev = (IF k % 2 = 1 THEN "get_quote" ELSE "sleep")
         /\ \A k \in 1..(Len(calls) - 1) : Failed(calls[k])
         /\ retry.pc = "returned" =>
              /\ Len(trace) % 2 = 1
              /\ retry.result = None
                   <=> /\ Len(calls) = retry.max_retries
                       /\ \A k \in 1..Len(calls) : Failed(calls[k])
              /\ retry.result # None
                   => /\ ~Failed(calls[Len(calls)])
                      /\ retry.result = calls[Len(calls)].value

====
